---- MODULE Spec2Model ----
(***************************************************************************)
(* Model of package apilogging: the logging http.RoundTripper              *)
(* (interceptor.RoundTrip and its constructors, in both revisions found in *)
(* the sources) and the gRPC client stream logger (DebugStreamLogger and   *)
(* debugClientStream).                                                     *)
(*                                                                         *)
(* Revision 2 is src/unnamed/part_001 (NewLoggingHTTPClient,               *)
(* NewInterceptingRoundTripper, capture flags, LogResponse with            *)
(* requestMatched); revision 1 is src/apilogging.go (NewLoggingClient).    *)
(* Constructors are called until one returns an interceptor; RoundTrip     *)
(* calls on it run concurrently, each advancing in the order of the code.  *)
(***************************************************************************)
EXTENDS Integers, Sequences, FiniteSets, TLC

VARIABLES
    tr,       \* the interceptor held by the constructed http.Client
    newRet,   \* what the last constructor call returned
    sink,     \* the text written through cfg.Logger, one entry per Print(f)
    rt,       \* the RoundTrip calls: position, locals (r, matchedReq, the dumps' err,
              \* resp/err of the wrapped call), filter evaluations, return value
    now,      \* the reading of time.Now().UnixNano()
    streams,  \* the debugClientStream values DebugStreamLogger returned
    trace     \* stream logger history: calls, real-stream calls, log records, returns

hvars == <<tr, newRet, sink, rt>>
svars == <<now, streams, trace>>
vars == <<tr, newRet, sink, rt, now, streams, trace>>

\* Number of RoundTrip calls issued on the interceptor (they run concurrently).
MaxCalls == 2

Calls == 1..MaxCalls

-----------------------------------------------------------------------------
\* Values

NoErr == "nil"

\* *http.Request and *http.Response, as far as the dumps read them: the
\* request line / status line with headers, and the body.
Requests ==
    { [head |-> "GET /bigquery/v2/projects/bigquery-public-data/datasets", body |-> ""],
      [head |-> "POST /upload", body |-> "payload"] }

Responses ==
    { [head |-> "HTTP/1.1 200 OK Content-Type: application/json", body |-> "{}"] }

NoMessage == [head |-> "", body |-> ""]

\* Errors of the wrapped transport.
TransportErrors == {"connection reset"}

\* What the wrapped RoundTripper returns: a response or an error.
InnerOutcomes ==
    [resp : Responses, err : {NoErr}]
        \cup [resp : {NoMessage}, err : TransportErrors]

\* Filters a caller may configure. "nil" is the absent filter.
RequestFilters == {"nil", "never", "hasBody"}
ResponseFilters == {"nil", "never", "hasBody", "notMatched"}
ResponseFiltersV1 == {"nil", "never", "hasBody"}

\* *LoggerConfig. isNil is the nil pointer; Logger is whether cfg.Logger is set.
LoggerConfig ==
    [ isNil : BOOLEAN, Logger : BOOLEAN,
      CaptureFullRequest : BOOLEAN, CaptureFullResponse : BOOLEAN,
      LogRequest : RequestFilters, LogResponse : ResponseFilters ]

NilConfig ==
    [ isNil |-> TRUE, Logger |-> FALSE,
      CaptureFullRequest |-> FALSE, CaptureFullResponse |-> FALSE,
      LogRequest |-> "nil", LogResponse |-> "nil" ]

\* The configurations a caller can write against revision 2.
Configs ==
    {NilConfig} \cup {c \in LoggerConfig : ~c.isNil}

\* Revision 1's LoggerConfig has no capture flags and a one-argument LogResponse.
ConfigsV1 ==
    {NilConfig} \cup
    {c \in LoggerConfig : /\ ~c.isNil
                          /\ ~c.CaptureFullRequest /\ ~c.CaptureFullResponse
                          /\ c.LogResponse \in ResponseFiltersV1}

NoInterceptor == [set |-> FALSE, ver |-> 0, cfg |-> NilConfig]

-----------------------------------------------------------------------------
\* httputil.DumpRequest / DumpResponse: the head always, the body only when
\* asked for; `fails` is the library's failure (an unreadable body, ...).

DumpRequest(r, body, fails) ==
    IF fails
    THEN [bytes |-> NoMessage, err |-> "dump request failed"]
    ELSE [bytes |-> [head |-> r.head, body |-> IF body THEN r.body ELSE ""],
          err |-> NoErr]

DumpResponse(resp, body, fails) ==
    IF fails
    THEN [bytes |-> NoMessage, err |-> "dump response failed"]
    ELSE [bytes |-> [head |-> resp.head, body |-> IF body THEN resp.body ELSE ""],
          err |-> NoErr]

\* The caller's filter functions, applied to the dump bytes.
ApplyLogRequest(f, b) ==
    CASE f = "never" -> FALSE
      [] f = "hasBody" -> b.body # ""
      [] OTHER -> TRUE

ApplyLogResponse(f, b, requestMatched) ==
    CASE f = "never" -> FALSE
      [] f = "hasBody" -> b.body # ""
      [] f = "notMatched" -> ~requestMatched
      [] OTHER -> TRUE

\* Logger.Printf("REQUEST\n=====\n%s\n=====\n", dumpReq) and its RESPONSE twin.
\* `call` records which RoundTrip call wrote the block.
Block(kind, bytes, c) == [kind |-> kind, dump |-> bytes, call |-> c]

-----------------------------------------------------------------------------
\* Construction

\* Variant: the Logger check is missing.
InterceptingRoundTripper_NoLoggerCheck(cfg) ==
    IF cfg.isNil
    THEN [tr |-> NoInterceptor, err |-> "must supply a valid loggerconfig"]
    ELSE [tr |-> [set |-> TRUE, ver |-> 2, cfg |-> cfg], err |-> NoErr]

\* NewInterceptingRoundTripper(cfg, wrapped): the pair it returns.
InterceptingRoundTripper(cfg) ==
    IF cfg.isNil
    THEN [tr |-> NoInterceptor, err |-> "must supply a valid loggerconfig"]
    ELSE IF ~cfg.Logger
    THEN [tr |-> NoInterceptor, err |-> "LoggerConfig must contain a Logger"]
    ELSE [tr |-> [set |-> TRUE, ver |-> 2, cfg |-> cfg], err |-> NoErr]

\* Revision 1, NewLoggingClient: the same two checks, made before the auth
\* transport is built.
LoggingClientConfigErr(cfg) ==
    IF cfg.isNil
    THEN "must supply a valid loggerconfig"
    ELSE IF ~cfg.Logger
    THEN "LoggerConfig must contain a Logger"
    ELSE NoErr

\* htransport.NewTransport is an external collaborator: it succeeds or fails.
NewTransportErrors == {NoErr, "could not find default credentials"}

\* What a constructor call returned, with what it was given: whether cfg was
\* nil, whether cfg.Logger was set, and how NewTransport ended ("-" when the
\* constructor does not call it).
Returned(fn, cfg, terr, res) ==
    [fn |-> fn, cfgNil |-> cfg.isNil, cfgLogger |-> cfg.Logger, terr |-> terr,
     transport |-> res.tr.set, err |-> res.err]

\* The model follows one client: constructors are called until one succeeds,
\* and the RoundTrip calls are then made on the interceptor it returned.
Install(fn, cfg, terr, res) ==
    /\ ~tr.set
    /\ tr' = IF res.tr.set THEN res.tr ELSE tr
    /\ newRet' = Returned(fn, cfg, terr, res)

NewInterceptingRoundTripper ==
    \E cfg \in Configs :
        /\ Install("NewInterceptingRoundTripper", cfg, "-", InterceptingRoundTripper(cfg))
        /\ UNCHANGED <<sink, rt, svars>>

\* NewLoggingHTTPClient: the auth transport is built first, then the
\* interceptor around it.
LoggingHTTPClient(cfg, terr) ==
    IF terr # NoErr
    THEN [tr |-> NoInterceptor, err |-> terr]
    ELSE InterceptingRoundTripper(cfg)

NewLoggingHTTPClient ==
    \E cfg \in Configs, terr \in NewTransportErrors :
        /\ Install("NewLoggingHTTPClient", cfg, terr, LoggingHTTPClient(cfg, terr))
        /\ UNCHANGED <<sink, rt, svars>>

\* Variant: the start line is printed before the auth transport is built.
LoggingClient_PrintsBeforeTransport(cfg, terr) ==
    IF LoggingClientConfigErr(cfg) # NoErr
    THEN [tr |-> NoInterceptor, err |-> LoggingClientConfigErr(cfg), out |-> <<>>]
    ELSE IF terr # NoErr
    THEN [tr |-> NoInterceptor, err |-> terr,
          out |-> <<Block("Starting http logging client", NoMessage, 0)>>]
    ELSE [tr |-> [set |-> TRUE, ver |-> 1, cfg |-> cfg], err |-> NoErr,
          out |-> <<Block("Starting http logging client", NoMessage, 0)>>]

\* Revision 1, NewLoggingClient: the configuration is checked first, then the
\* auth transport is built, then the start line is printed.
LoggingClient(cfg, terr) ==
    IF LoggingClientConfigErr(cfg) # NoErr
    THEN [tr |-> NoInterceptor, err |-> LoggingClientConfigErr(cfg), out |-> <<>>]
    ELSE IF terr # NoErr
    THEN [tr |-> NoInterceptor, err |-> terr, out |-> <<>>]
    ELSE [tr |-> [set |-> TRUE, ver |-> 1, cfg |-> cfg], err |-> NoErr,
          out |-> <<Block("Starting http logging client", NoMessage, 0)>>]

NewLoggingClient ==
    \E cfg \in ConfigsV1, terr \in NewTransportErrors :
        /\ Install("NewLoggingClient", cfg, terr, LoggingClient(cfg, terr))
        /\ sink' = sink \o LoggingClient(cfg, terr).out
        /\ UNCHANGED <<rt, svars>>

-----------------------------------------------------------------------------
\* interceptor.RoundTrip

NoOutcome == [resp |-> NoMessage, err |-> NoErr]

IdleCall ==
    [ pc |-> "idle", r |-> NoMessage, matchedReq |-> FALSE,
      reqDumpErr |-> NoErr, respDumpErr |-> NoErr,
      reqEval |-> FALSE, respEval |-> "none",
      innerN |-> 0, innerArg |-> NoMessage, innerOut |-> NoOutcome,
      ret |-> NoOutcome ]

\* Variant: the error of DumpRequest is not checked.
ReqDumpAborts_Never(d) == FALSE

\* if err != nil after DumpRequest
ReqDumpAborts(d) == d.err # NoErr

\* return nil, err
RetReqDumpError(d) == [resp |-> NoMessage, err |-> d.err]

\* Variant: the filter is called and its result ignored.
ShouldLogRequest_IgnoresFilter(cfg, b) == TRUE

\* Variant: the nil test is inverted, so that an absent filter logs nothing.
ShouldLogRequest_NilSkips(cfg, b) ==
    cfg.LogRequest # "nil" /\ ApplyLogRequest(cfg.LogRequest, b)

\* if i.cfg.LogRequest == nil || i.cfg.LogRequest(dumpReq)
ShouldLogRequest(cfg, b) ==
    cfg.LogRequest = "nil" \/ ApplyLogRequest(cfg.LogRequest, b)

\* Variant: the error of the wrapped transport is not checked.
InnerFailed_Never(out) == FALSE

\* if err != nil after i.rt.RoundTrip(r)
InnerFailed(out) == out.err # NoErr

\* Variant: the transport's error is replaced by one of the interceptor's own.
RetInnerError_Wrapped(out) == [resp |-> out.resp, err |-> "roundtrip failed"]

\* return resp, err
RetInnerError(out) == [resp |-> out.resp, err |-> out.err]

\* Variant: the error of DumpResponse is not checked.
RespDumpAborts_Never(d) == FALSE

\* if err != nil after DumpResponse
RespDumpAborts(d) == d.err # NoErr

\* return nil, err
RetRespDumpError(d) == [resp |-> NoMessage, err |-> d.err]

\* Variant: the nil test is inverted, so that an absent filter logs nothing.
ShouldLogResponse_NilSkips(cfg, b, matchedReq) ==
    cfg.LogResponse # "nil" /\ ApplyLogResponse(cfg.LogResponse, b, matchedReq)

\* if i.cfg.LogResponse == nil || i.cfg.LogResponse(dumpResp, matchedReq)
ShouldLogResponse(cfg, b, matchedReq) ==
    cfg.LogResponse = "nil" \/ ApplyLogResponse(cfg.LogResponse, b, matchedReq)

\* revision 1: if i.cfg.LogResponse == nil || i.cfg.LogResponse(dumpResp)
ShouldLogResponseV1(cfg, b) ==
    cfg.LogResponse = "nil" \/ ApplyLogResponse(cfg.LogResponse, b, FALSE)

\* return resp, nil
RetSuccess(out) == [resp |-> out.resp, err |-> NoErr]

\* Variant: the request goes on with the body the dump has read away.
InnerArgument_BodyDrained(r) == [head |-> r.head, body |-> ""]

\* The argument handed to the wrapped transport: i.rt.RoundTrip(r)
InnerArgument(r) == r

\* Variant: RoundTrip runs under a mutex of the interceptor, from entry to
\* return.
MayStart_Serialized(c) ==
    /\ tr.set
    /\ rt[c].pc = "idle"
    /\ c > 1 => rt[c - 1].pc # "idle"
    /\ \A d \in Calls \ {c} : rt[d].pc \in {"idle", "done"}

\* Calls are numbered in the order they are issued.
MayStart(c) ==
    /\ tr.set
    /\ rt[c].pc = "idle"
    /\ c > 1 => rt[c - 1].pc # "idle"

\* From entry up to the call of the wrapped transport: dump the request,
\* evaluate the filter, write the REQUEST block.
Begin(c, r, full, fails) ==
    LET d == DumpRequest(r, full, fails)
        m == ShouldLogRequest(tr.cfg, d.bytes)
    IN  IF ReqDumpAborts(d)
        THEN /\ rt' = [rt EXCEPT ![c] = [@ EXCEPT !.pc = "done", !.r = r,
                                            !.reqDumpErr = d.err,
                                            !.ret = RetReqDumpError(d)]]
             /\ UNCHANGED sink
        ELSE /\ rt' = [rt EXCEPT ![c] = [@ EXCEPT !.pc = "invoke", !.r = r,
                                            !.reqDumpErr = d.err,
                                            !.matchedReq = m,
                                            !.reqEval = (tr.cfg.LogRequest # "nil")]]
             /\ sink' = IF m THEN Append(sink, Block("REQUEST", d.bytes, c)) ELSE sink

RoundTripBegin(c) ==
    /\ MayStart(c)
    /\ tr.ver = 2
    /\ \E r \in Requests, fails \in BOOLEAN :
           Begin(c, r, tr.cfg.CaptureFullRequest, fails)
    /\ UNCHANGED <<tr, newRet, svars>>

RoundTripBeginV1(c) ==
    /\ MayStart(c)
    /\ tr.ver = 1
    /\ \E r \in Requests, fails \in BOOLEAN : Begin(c, r, TRUE, fails)
    /\ UNCHANGED <<tr, newRet, svars>>

\* resp, err := i.rt.RoundTrip(r): the call is handed to the wrapped transport.
RoundTripInvoke(c) ==
    /\ rt[c].pc = "invoke"
    /\ rt' = [rt EXCEPT ![c] = [@ EXCEPT !.pc = "inner",
                                   !.innerN = @ + 1,
                                   !.innerArg = InnerArgument(rt[c].r)]]
    /\ UNCHANGED <<tr, newRet, sink, svars>>

\* The wrapped transport returns (the environment's step).
InnerReturns(c) ==
    /\ rt[c].pc = "inner"
    /\ \E out \in InnerOutcomes :
           rt' = [rt EXCEPT ![c] = [@ EXCEPT !.pc = "returned", !.innerOut = out]]
    /\ UNCHANGED <<tr, newRet, sink, svars>>

\* Variant: matchedReq is never set to true.
RequestMatchedArg_NeverSet(c) == FALSE

\* The requestMatched argument of LogResponse: matchedReq.
RequestMatchedArg(c) == rt[c].matchedReq

\* From the return of the wrapped transport to the return of RoundTrip.
\* respEval records an evaluation of LogResponse and the argument it got.
Finish(c, full, fails, v1) ==
    LET out == rt[c].innerOut
        d == DumpResponse(out.resp, full, fails)
        log == IF v1 THEN ShouldLogResponseV1(tr.cfg, d.bytes)
               ELSE ShouldLogResponse(tr.cfg, d.bytes, RequestMatchedArg(c))
        eval == IF tr.cfg.LogResponse = "nil" THEN "none"
                ELSE IF v1 THEN "v1"
                ELSE IF RequestMatchedArg(c) THEN "matched" ELSE "unmatched"
    IN  IF InnerFailed(out)
        THEN /\ rt' = [rt EXCEPT ![c] = [@ EXCEPT !.pc = "done", !.ret = RetInnerError(out)]]
             /\ UNCHANGED sink
        ELSE IF RespDumpAborts(d)
        THEN /\ rt' = [rt EXCEPT ![c] = [@ EXCEPT !.pc = "done", !.respDumpErr = d.err,
                                            !.ret = RetRespDumpError(d)]]
             /\ UNCHANGED sink
        ELSE /\ rt' = [rt EXCEPT ![c] = [@ EXCEPT !.pc = "done", !.respDumpErr = d.err,
                                            !.ret = RetSuccess(out),
                                            !.respEval = eval]]
             /\ sink' = IF log
                        THEN Append(sink, Block("RESPONSE", d.bytes, c))
                        ELSE sink

RoundTripFinish(c) ==
    /\ rt[c].pc = "returned"
    /\ tr.ver = 2
    /\ \E fails \in BOOLEAN : Finish(c, tr.cfg.CaptureFullResponse, fails, FALSE)
    /\ UNCHANGED <<tr, newRet, svars>>

RoundTripFinishV1(c) ==
    /\ rt[c].pc = "returned"
    /\ tr.ver = 1
    /\ \E fails \in BOOLEAN : Finish(c, TRUE, fails, TRUE)
    /\ UNCHANGED <<tr, newRet, svars>>

-----------------------------------------------------------------------------
\* The gRPC client stream logger

\* Number of calls made on the stream logger (opens and stream operations).
MaxOps == 3

\* Largest clock reading.
MaxClock == 2

\* unsafe.Sizeof(m) of an interface{} value: two words.
SizeofInterface == 16

Methods == {"/svc/AppendRows", "/svc/ReadRows"}
Messages == {"m1", "m2"}
Metadata == {"md-a", "md-b"}
NoMD == "nil"
StreamErrors == {"EOF"}
StreamerErrors == {"dial failed"}

\* What the real stream answers to each operation (opaque to the logger).
RealResults(op) ==
    CASE op = "Header" -> [res : Metadata, err : {NoErr}] \cup [res : {NoMD}, err : StreamErrors]
      [] op = "Trailer" -> [res : Metadata, err : {NoErr}]
      [] op = "Context" -> [res : {"ctx-of-real-stream"}, err : {NoErr}]
      [] OTHER -> [res : {""}, err : {NoErr} \cup StreamErrors]

\* History entries.
CallEv(s, op, arg) ==
    [kind |-> "call", stream |-> s, op |-> op, arg |-> arg, res |-> "", err |-> NoErr]

RealEv(h, op, arg, out) ==
    [kind |-> "real", stream |-> h, op |-> op, arg |-> arg, res |-> out.res, err |-> out.err]

ReturnEv(s, op, res, err) ==
    [kind |-> "return", stream |-> s, op |-> op, arg |-> "", res |-> res, err |-> err]

\* slog.LogAttrs(ld.ctx, ld.level, ld.msg, ld.attrs...): one flushed record.
LogEv(ld) == [kind |-> "log", msg |-> ld.msg, attrs |-> ld.attrs]

Attr(k, v) == [k |-> k, v |-> v]

\* fmt.Sprintf("debug_stream_%d", time.Now().UnixNano())
DebugID(t) == "debug_stream_" \o ToString(t)

\* Variant: the two attribute values are swapped.
NewLogData_SwappedAttrs(dcs, msg) ==
    [msg |-> msg, attrs |-> <<Attr("DebugID", dcs.method), Attr("Method", dcs.id)>>]

\* (dcs *debugClientStream).log(level, msg)
NewLogData(dcs, msg) ==
    [msg |-> msg, attrs |-> <<Attr("DebugID", dcs.id), Attr("Method", dcs.method)>>]

\* (ld *logData).addAttr(attr)
addAttr(ld, attr) == [ld EXCEPT !.attrs = Append(@, attr)]

\* Variant: the Error attribute is added without the nil test.
addError_Always(ld, err) == addAttr(ld, Attr("Error", err))

\* if err != nil { log.addAttr(slog.Any("Error", err)) }
addError(ld, err) == IF err # NoErr THEN addAttr(ld, Attr("Error", err)) ELSE ld

MayCall == Len(trace) < 4 * MaxOps

\* Variant: the decorated stream is returned together with the error.
DebugStreamLoggerEvents_ReturnsStreamOnError(method, serr, t, h) ==
    << CallEv(0, "DebugStreamLogger", method),
       RealEv(IF serr = NoErr THEN h ELSE 0, "streamer", method,
              [res |-> "", err |-> serr]),
       LogEv(addError(NewLogData([id |-> DebugID(t), method |-> method, real |-> 0],
                                 "intercepting ClientStream"), serr)),
       ReturnEv(h, "DebugStreamLogger", "", serr) >>

\* Variant: the record is flushed at once instead of by defer.
DebugStreamLoggerEvents_EagerFlush(method, serr, t, h) ==
    << CallEv(0, "DebugStreamLogger", method),
       LogEv(NewLogData([id |-> DebugID(t), method |-> method, real |-> 0],
                        "intercepting ClientStream")),
       RealEv(IF serr = NoErr THEN h ELSE 0, "streamer", method,
              [res |-> "", err |-> serr]),
       ReturnEv(IF serr = NoErr THEN h ELSE 0, "DebugStreamLogger", "", serr) >>

\* DebugStreamLogger: what it appends to the history, given the streamer's
\* answer (serr), with the real stream handle h the streamer would hand out.
DebugStreamLoggerEvents(method, serr, t, h) ==
    LET dcs == [id |-> DebugID(t), method |-> method, real |-> 0]
        log == NewLogData(dcs, "intercepting ClientStream")
    IN  << CallEv(0, "DebugStreamLogger", method),
           RealEv(IF serr = NoErr THEN h ELSE 0, "streamer", method,
                  [res |-> "", err |-> serr]),
           LogEv(addError(log, serr)),
           ReturnEv(IF serr = NoErr THEN h ELSE 0, "DebugStreamLogger", "", serr) >>

DebugStreamLogger ==
    /\ MayCall
    /\ \E method \in Methods, serr \in {NoErr} \cup StreamerErrors :
           LET h == Len(streams) + 1
           IN  /\ trace' = trace \o DebugStreamLoggerEvents(method, serr, now, h)
               /\ streams' = IF serr = NoErr
                             THEN Append(streams, [id |-> DebugID(now), method |-> method,
                                                   real |-> h])
                             ELSE streams
    /\ UNCHANGED <<now, hvars>>

\* The clock advances.
Tick ==
    /\ now < MaxClock
    /\ now' = now + 1
    /\ UNCHANGED <<streams, trace, hvars>>

\* The log record of a stream operation, before the real call.
OpLogData(dcs, op) ==
    addAttr(NewLogData(dcs, "ClientStream event"), Attr("ClientStreamMethod", op))

\* Header, CloseSend: call the real stream, attach the error, flush, return.
HeaderEvents(s, out) ==
    << CallEv(s, "Header", ""),
       RealEv(streams[s].real, "Header", "", out),
       LogEv(addError(OpLogData(streams[s], "Header"), out.err)),
       ReturnEv(s, "Header", out.res, out.err) >>

CloseSendEvents(s, out) ==
    << CallEv(s, "CloseSend", ""),
       RealEv(streams[s].real, "CloseSend", "", out),
       LogEv(addError(OpLogData(streams[s], "CloseSend"), out.err)),
       ReturnEv(s, "CloseSend", "", out.err) >>

\* Trailer, Context: the real stream's value is returned as it is.
TrailerEvents(s, out) ==
    << CallEv(s, "Trailer", ""),
       RealEv(streams[s].real, "Trailer", "", out),
       LogEv(OpLogData(streams[s], "Trailer")),
       ReturnEv(s, "Trailer", out.res, NoErr) >>

ContextEvents(s, out) ==
    << CallEv(s, "Context", ""),
       RealEv(streams[s].real, "Context", "", out),
       LogEv(OpLogData(streams[s], "Context")),
       ReturnEv(s, "Context", out.res, NoErr) >>

\* SendMsg, RecvMsg: the MessageSize attribute is added before the real call.
MsgLogData(dcs, op) ==
    addAttr(OpLogData(dcs, op), Attr("MessageSize", ToString(SizeofInterface)))

\* Variant: a failed send is tried once more.
SendMsgEvents_Retries(s, m, out) ==
    << CallEv(s, "SendMsg", m),
       RealEv(streams[s].real, "SendMsg", m, out) >>
    \o (IF out.err # NoErr
        THEN <<RealEv(streams[s].real, "SendMsg", m, out)>>
        ELSE <<>>)
    \o << LogEv(addError(MsgLogData(streams[s], "SendMsg"), out.err)),
          ReturnEv(s, "SendMsg", "", out.err) >>

SendMsgEvents(s, m, out) ==
    << CallEv(s, "SendMsg", m),
       RealEv(streams[s].real, "SendMsg", m, out),
       LogEv(addError(MsgLogData(streams[s], "SendMsg"), out.err)),
       ReturnEv(s, "SendMsg", "", out.err) >>

\* Variant: the record is flushed before the real call instead of by defer.
RecvMsgEvents_FlushBeforeCall(s, m, out) ==
    << CallEv(s, "RecvMsg", m),
       LogEv(MsgLogData(streams[s], "RecvMsg")),
       RealEv(streams[s].real, "RecvMsg", m, out),
       ReturnEv(s, "RecvMsg", "", out.err) >>

RecvMsgEvents(s, m, out) ==
    << CallEv(s, "RecvMsg", m),
       RealEv(streams[s].real, "RecvMsg", m, out),
       LogEv(addError(MsgLogData(streams[s], "RecvMsg"), out.err)),
       ReturnEv(s, "RecvMsg", "", out.err) >>

StreamStep(evs) ==
    /\ MayCall
    /\ trace' = trace \o evs
    /\ UNCHANGED <<now, streams, hvars>>

Header(s) == \E out \in RealResults("Header") : StreamStep(HeaderEvents(s, out))

Trailer(s) == \E out \in RealResults("Trailer") : StreamStep(TrailerEvents(s, out))

CloseSend(s) == \E out \in RealResults("CloseSend") : StreamStep(CloseSendEvents(s, out))

Context(s) == \E out \in RealResults("Context") : StreamStep(ContextEvents(s, out))

SendMsg(s) ==
    \E m \in Messages, out \in RealResults("SendMsg") : StreamStep(SendMsgEvents(s, m, out))

RecvMsg(s) ==
    \E m \in Messages, out \in RealResults("RecvMsg") : StreamStep(RecvMsgEvents(s, m, out))

-----------------------------------------------------------------------------
Init ==
    /\ tr = NoInterceptor
    /\ newRet = [fn |-> "none", cfgNil |-> FALSE, cfgLogger |-> FALSE, terr |-> "-",
                 transport |-> FALSE, err |-> NoErr]
    /\ sink = <<>>
    /\ rt = [c \in Calls |-> IdleCall]
    /\ now = 1
    /\ streams = <<>>
    /\ trace = <<>>

\* The HTTP interceptor.
Next ==
    \/ NewInterceptingRoundTripper
    \/ NewLoggingHTTPClient
    \/ NewLoggingClient
    \/ \E c \in Calls : RoundTripBegin(c)
    \/ \E c \in Calls : RoundTripBeginV1(c)
    \/ \E c \in Calls : RoundTripInvoke(c)
    \/ \E c \in Calls : InnerReturns(c)
    \/ \E c \in Calls : RoundTripFinish(c)
    \/ \E c \in Calls : RoundTripFinishV1(c)

Spec == Init /\ [][Next]_vars

\* The stream logger.
StreamNext ==
    \/ DebugStreamLogger
    \/ Tick
    \/ \E s \in 1..Len(streams) : Header(s)
    \/ \E s \in 1..Len(streams) : Trailer(s)
    \/ \E s \in 1..Len(streams) : CloseSend(s)
    \/ \E s \in 1..Len(streams) : Context(s)
    \/ \E s \in 1..Len(streams) : SendMsg(s)
    \/ \E s \in 1..Len(streams) : RecvMsg(s)

StreamSpec == Init /\ [][StreamNext]_vars

-----------------------------------------------------------------------------
\* Properties of interceptor.RoundTrip and its constructors

\* The blocks a call wrote to the sink.
CallBlocks(c) == {i \in DOMAIN sink : sink[i].call = c}
ReqBlocks(c) == {i \in CallBlocks(c) : sink[i].kind = "REQUEST"}
RespBlocks(c) == {i \in CallBlocks(c) : sink[i].kind = "RESPONSE"}

\* What the dumps of a call hold: the head, and the body when it is captured
\* (always in revision 1).
RequestDumpOf(c) ==
    [head |-> rt[c].r.head,
     body |-> IF tr.ver = 1 \/ tr.cfg.CaptureFullRequest THEN rt[c].r.body ELSE ""]

ResponseDumpOf(c) ==
    [head |-> rt[c].innerOut.resp.head,
     body |-> IF tr.ver = 1 \/ tr.cfg.CaptureFullResponse
              THEN rt[c].innerOut.resp.body ELSE ""]

\* The wrapped transport has returned to call c, with an error.
InnerReturnedError(c) ==
    rt[c].pc \in {"returned", "done"} /\ rt[c].innerN > 0 /\ rt[c].innerOut.err # NoErr

\* Call c is over and got as far as the response filter: the request was
\* dumped, the wrapped transport answered without error, the response was dumped.
ReachedResponseFilter(c) ==
    /\ rt[c].pc = "done"
    /\ rt[c].innerN > 0
    /\ rt[c].reqDumpErr = NoErr
    /\ rt[c].innerOut.err = NoErr
    /\ rt[c].respDumpErr = NoErr

\* C1: when the wrapped transport returns an error, RoundTrip returns that
\* same error, LogResponse is not evaluated, no RESPONSE block is written for
\* the call, and the call's only block, if any, is its REQUEST block.
C1_InnerErrorPassedThrough ==
    \A c \in Calls :
        InnerReturnedError(c) =>
            /\ RespBlocks(c) = {}
            /\ CallBlocks(c) = ReqBlocks(c)
            /\ Cardinality(CallBlocks(c)) <= 1
            /\ rt[c].respEval = "none"
            /\ rt[c].pc = "done" =>
                   /\ rt[c].ret.err = rt[c].innerOut.err
                   /\ rt[c].ret.err \in TransportErrors

C1_Witness ==
    \E c \in Calls :
        /\ rt[c].pc = "done"
        /\ InnerReturnedError(c)
        /\ ReqBlocks(c) # {}
        /\ rt[c].ret.err = "connection reset"

\* C2: with a Logger and neither filter configured, a RoundTrip call whose
\* dumps and wrapped call all succeed writes exactly two blocks: a REQUEST
\* block holding the request dump, then a RESPONSE block holding the response
\* dump.
C2_TwoWritesWithoutFilters ==
    \A c \in Calls :
        ( /\ tr.set
          /\ tr.cfg.LogRequest = "nil" /\ tr.cfg.LogResponse = "nil"
          /\ ReachedResponseFilter(c) ) =>
            /\ Cardinality(CallBlocks(c)) = 2
            /\ \E i \in ReqBlocks(c), j \in RespBlocks(c) :
                   /\ i < j
                   /\ sink[i].dump = RequestDumpOf(c)
                   /\ sink[j].dump = ResponseDumpOf(c)
                   /\ sink[i].dump.head = rt[c].r.head
                   /\ sink[j].dump.head = rt[c].ret.resp.head

C2_Witness ==
    \E c \in Calls :
        /\ tr.set /\ tr.ver = 2
        /\ tr.cfg.LogRequest = "nil" /\ tr.cfg.LogResponse = "nil"
        /\ ReachedResponseFilter(c)
        /\ rt[c].ret.err = NoErr
        /\ Cardinality(CallBlocks(c)) = 2

\* C3: a call's REQUEST block is written before the wrapped transport is
\* invoked, its RESPONSE block only once the wrapped transport has returned
\* without error, and its RESPONSE block never stands before its REQUEST block.
C3_RequestBeforeInnerResponseAfter ==
    [][ \A c \in Calls :
          /\ ReqBlocks(c)' # ReqBlocks(c) =>
                 rt[c].innerN = 0 /\ rt'[c].innerN = 0
          /\ RespBlocks(c)' # RespBlocks(c) =>
                 /\ rt[c].pc = "returned"
                 /\ rt[c].innerN = 1
                 /\ rt[c].innerOut.err = NoErr
          /\ \A i \in ReqBlocks(c)', j \in RespBlocks(c)' : i < j ]_vars

\* Two calls interleave: both REQUEST blocks are written, then both RESPONSE
\* blocks.
C3_Witness ==
    /\ Len(sink) >= 4
    /\ \E c \in Calls : ReqBlocks(c) # {} /\ RespBlocks(c) # {}
    /\ \E c, d \in Calls :
           /\ c # d
           /\ \E i \in ReqBlocks(c), j \in ReqBlocks(d), k \in RespBlocks(c) :
                  i < j /\ j < k

\* C4: NewInterceptingRoundTripper returns an error and no transport for a nil
\* configuration and for one without a Logger, a transport and no error for
\* every other configuration, and a failing constructor call (revision 1's
\* NewLoggingClient included) writes nothing to the sink.
C4_ConstructorValidates ==
    /\ [] ( newRet.fn = "NewInterceptingRoundTripper" =>
              /\ (newRet.cfgNil \/ ~newRet.cfgLogger) =>
                     newRet.err # NoErr /\ ~newRet.transport
              /\ (newRet.transport /\ newRet.err = NoErr) <=>
                     (~newRet.cfgNil /\ newRet.cfgLogger)
              /\ newRet.transport <=> newRet.err = NoErr
              /\ newRet.transport => tr.set /\ tr.cfg.Logger )
    /\ [] ( newRet.fn = "NewLoggingClient" /\ (newRet.cfgNil \/ ~newRet.cfgLogger) =>
              newRet.err # NoErr /\ ~newRet.transport )
    /\ [][ (newRet' # newRet /\ ~newRet'.transport) => sink' = sink ]_vars

C4_Witness ==
    /\ newRet.fn = "NewInterceptingRoundTripper"
    /\ ~newRet.cfgNil /\ ~newRet.cfgLogger
    /\ newRet.err = "LoggerConfig must contain a Logger"
    /\ ~newRet.transport
    /\ sink = <<>>

\* C5: when LogRequest always returns false, the sink never holds a REQUEST
\* block, whatever the wrapped calls return and whatever LogResponse is.
C5_NoRequestBlockWhenFilterFalse ==
    (tr.set /\ tr.cfg.LogRequest = "never") =>
        \A i \in DOMAIN sink : sink[i].kind # "REQUEST"

C5_Witness ==
    /\ tr.set /\ tr.cfg.LogRequest = "never" /\ tr.cfg.LogResponse # "never"
    /\ \A c \in Calls : rt[c].pc = "done"
    /\ \E c \in Calls : InnerReturnedError(c)
    /\ \E c \in Calls : RespBlocks(c) # {}

\* What LogResponse was given as requestMatched in call c (revision 2).
ResponseFilterSawMatched(c) == rt[c].respEval = "matched"

\* The request filter is absent or returns true on the call's request dump.
RequestPasses(c) ==
    tr.cfg.LogRequest = "nil" \/ ApplyLogRequest(tr.cfg.LogRequest, RequestDumpOf(c))

\* The response filter is absent or returns true on the call's response dump.
ResponsePasses(c) ==
    \/ tr.cfg.LogResponse = "nil"
    \/ ApplyLogResponse(tr.cfg.LogResponse, ResponseDumpOf(c),
                        tr.ver = 2 /\ ReqBlocks(c) # {})

\* The relation between the two filters, for the calls that evaluate LogResponse.
C6_FilterRelation ==
    \A c \in Calls :
        ReachedResponseFilter(c) =>
            /\ (tr.ver = 2 /\ tr.cfg.LogResponse # "nil") =>
                   /\ rt[c].respEval \in {"matched", "unmatched"}
                   /\ ResponseFilterSawMatched(c) <=> ReqBlocks(c) # {}
                   /\ ResponseFilterSawMatched(c) <=> RequestPasses(c)
            /\ RespBlocks(c) # {} <=> ResponsePasses(c)

\* C6 (as amended): in every call that gets as far as the response filter
\* (wrapped call and both dumps succeeded), LogResponse's requestMatched is
\* true exactly when the call's REQUEST block was written, the RESPONSE block
\* is written exactly when LogResponse is absent or returns true, and with
\* LogRequest constant-false and LogResponse = !requestMatched such a call
\* writes a RESPONSE block and no REQUEST block.
C6_ResponseFilterSeesRequestMatch ==
    /\ C6_FilterRelation
    /\ \A c \in Calls :
           ( /\ ReachedResponseFilter(c)
             /\ tr.cfg.LogRequest = "never" /\ tr.cfg.LogResponse = "notMatched" ) =>
               RespBlocks(c) # {} /\ ReqBlocks(c) = {}

C6_Witness ==
    \E c, d \in Calls :
        /\ tr.cfg.LogRequest = "hasBody" /\ tr.cfg.LogResponse = "notMatched"
        /\ ReachedResponseFilter(c) /\ ReachedResponseFilter(d)
        /\ rt[c].respEval = "matched" /\ ReqBlocks(c) # {} /\ RespBlocks(c) = {}
        /\ rt[d].respEval = "unmatched" /\ ReqBlocks(d) = {} /\ RespBlocks(d) # {}

\* C6 as first stated: the same, with EVERY finished call under LogRequest
\* constant-false and LogResponse = !requestMatched writing a RESPONSE block.
C6_EveryCallYieldsResponse ==
    /\ C6_FilterRelation
    /\ \A c \in Calls :
           ( /\ rt[c].pc = "done"
             /\ tr.cfg.LogRequest = "never" /\ tr.cfg.LogResponse = "notMatched" ) =>
               RespBlocks(c) # {} /\ ReqBlocks(c) = {}

\* C7: a call writes at most one REQUEST block and at most one RESPONSE block
\* and nothing else; once past the request step, the REQUEST block is missing
\* only if the request dump failed or LogRequest returned false; a RESPONSE
\* block is there only if the wrapped call returned without error and
\* LogResponse did not return false.
C7_AtMostTwoWrites ==
    \A c \in Calls :
        /\ Cardinality(ReqBlocks(c)) <= 1
        /\ Cardinality(RespBlocks(c)) <= 1
        /\ CallBlocks(c) = ReqBlocks(c) \cup RespBlocks(c)
        /\ (rt[c].pc # "idle" /\ ReqBlocks(c) = {}) =>
               \/ rt[c].reqDumpErr # NoErr
               \/ tr.cfg.LogRequest # "nil" /\ ~RequestPasses(c)
        /\ RespBlocks(c) # {} =>
               /\ rt[c].pc = "done"
               /\ rt[c].innerN = 1
               /\ rt[c].innerOut.err = NoErr
               /\ ResponsePasses(c)

\* One call wrote both blocks, another only its REQUEST block.
C7_Witness ==
    \E c, d \in Calls :
        /\ rt[c].pc = "done" /\ Cardinality(CallBlocks(c)) = 2
        /\ rt[d].pc = "done" /\ Cardinality(CallBlocks(d)) = 1 /\ InnerReturnedError(d)

\* C8: when the request dump fails, RoundTrip returns the dump's error and no
\* response, the wrapped transport is not invoked, LogRequest is not evaluated
\* and nothing is written to the sink.
C8_RequestDumpFailureAborts ==
    \A c \in Calls :
        rt[c].reqDumpErr # NoErr =>
            /\ rt[c].pc = "done"
            /\ rt[c].ret = [resp |-> NoMessage, err |-> rt[c].reqDumpErr]
            /\ rt[c].innerN = 0
            /\ ~rt[c].reqEval
            /\ rt[c].respEval = "none"
            /\ CallBlocks(c) = {}

C8_Witness ==
    \E c \in Calls :
        /\ rt[c].reqDumpErr = "dump request failed"
        /\ rt[c].pc = "done"
        /\ rt[c].ret.err = "dump request failed"
        /\ tr.cfg.LogRequest = "hasBody"
        /\ \E d \in Calls : ReqBlocks(d) # {}

\* C9: when the wrapped call succeeds and the response dump fails, RoundTrip
\* returns the dump's error and no response, no RESPONSE block is written, and
\* the REQUEST block the call wrote is still in the sink.
C9_ResponseDumpFailure ==
    \A c \in Calls :
        rt[c].respDumpErr # NoErr =>
            /\ rt[c].pc = "done"
            /\ rt[c].innerN = 1 /\ rt[c].innerOut.err = NoErr
            /\ rt[c].ret = [resp |-> NoMessage, err |-> rt[c].respDumpErr]
            /\ rt[c].respEval = "none"
            /\ RespBlocks(c) = {}
            /\ RequestPasses(c) =>
                   \E i \in ReqBlocks(c) : sink[i].dump = RequestDumpOf(c)

C9_Witness ==
    \E c \in Calls :
        /\ rt[c].respDumpErr = "dump response failed"
        /\ rt[c].ret.err = "dump response failed"
        /\ rt[c].innerOut.resp \in Responses
        /\ ReqBlocks(c) # {}

-----------------------------------------------------------------------------
\* Properties of the stream logger

StreamOps == {"Header", "Trailer", "CloseSend", "Context", "SendMsg", "RecvMsg"}

\* A history entry of the given kind that belongs to a stream operation.
IsOpCall(e) == e.kind = "call" /\ e.op \in StreamOps
IsOpReal(e) == e.kind = "real" /\ e.op \in StreamOps
IsOpReturn(e) == e.kind = "return" /\ e.op \in StreamOps

\* The entry at which the call that starts at entry i returns.
ReturnOf(i) ==
    CHOOSE j \in (i + 1)..Len(trace) :
        /\ trace[j].kind = "return"
        /\ \A k \in (i + 1)..(j - 1) : trace[k].kind # "return"

\* The calls made on the real stream during the call that starts at entry i.
RealCallsOf(i) ==
    {k \in (i + 1)..(ReturnOf(i) - 1) : trace[k].kind = "real"}

\* C10: each call of Header, Trailer, CloseSend, Context, SendMsg or RecvMsg
\* on the decorated stream makes exactly one call of the same operation on the
\* real stream it wraps, with the same argument, and returns the result and
\* error that call returned; the operations seen by the real stream, in order,
\* are those made on the decorated stream, with the same results.
C10_StreamOpsDelegateOnce ==
    /\ \A i \in DOMAIN trace :
           IsOpCall(trace[i]) =>
               /\ Cardinality(RealCallsOf(i)) = 1
               /\ \A k \in RealCallsOf(i) :
                      /\ trace[k].op = trace[i].op
                      /\ trace[k].arg = trace[i].arg
                      /\ trace[k].stream = streams[trace[i].stream].real
                      /\ trace[ReturnOf(i)].op = trace[i].op
                      /\ trace[ReturnOf(i)].stream = trace[i].stream
                      /\ trace[ReturnOf(i)].res = trace[k].res
                      /\ trace[ReturnOf(i)].err = trace[k].err
    /\ LET calls == SelectSeq(trace, IsOpCall)
           reals == SelectSeq(trace, IsOpReal)
           rets == SelectSeq(trace, IsOpReturn)
       IN  /\ Len(reals) = Len(calls)
           /\ Len(rets) = Len(calls)
           /\ \A n \in DOMAIN calls :
                  /\ reals[n].op = calls[n].op /\ reals[n].arg = calls[n].arg
                  /\ rets[n].res = reals[n].res /\ rets[n].err = reals[n].err

\* A failed RecvMsg and a Header that returned metadata, on the same stream.
C10_Witness ==
    \E i, j \in DOMAIN trace :
        /\ trace[i].kind = "return" /\ trace[i].op = "RecvMsg" /\ trace[i].err = "EOF"
        /\ trace[j].kind = "return" /\ trace[j].op = "Header" /\ trace[j].res = "md-b"
        /\ trace[i].stream = trace[j].stream

\* A history entry that starts a DebugStreamLogger call.
IsOpenCall(e) == e.kind = "call" /\ e.op = "DebugStreamLogger"

\* The log records flushed during the call that starts at entry i.
LogsOf(i) ==
    {k \in (i + 1)..(ReturnOf(i) - 1) : trace[k].kind = "log"}

\* The values a flushed record holds under attribute key.
AttrValues(e, key) ==
    {e.attrs[n].v : n \in {x \in DOMAIN e.attrs : e.attrs[x].k = key}}

\* C11: when the streamer fails, DebugStreamLogger returns a nil stream and
\* the streamer's error, and flushes the "intercepting ClientStream" record
\* once, with the error as its Error attribute; when the streamer succeeds, it
\* returns the decorated stream that wraps the streamer's stream and a nil
\* error, and flushes the record once, without an Error attribute.
C11_OpenResultAndRecord ==
    \A i \in DOMAIN trace :
        IsOpenCall(trace[i]) =>
            /\ Cardinality(RealCallsOf(i)) = 1
            /\ Cardinality(LogsOf(i)) = 1
            /\ \A k \in RealCallsOf(i), l \in LogsOf(i) :
                   LET ret == trace[ReturnOf(i)]
                   IN  /\ trace[k].op = "streamer"
                       /\ trace[l].msg = "intercepting ClientStream"
                       /\ ret.err = trace[k].err
                       /\ IF trace[k].err # NoErr
                          THEN /\ ret.stream = 0
                               /\ AttrValues(trace[l], "Error") = {trace[k].err}
                          ELSE /\ ret.stream \in DOMAIN streams
                               /\ streams[ret.stream].real = trace[k].stream
                               /\ trace[k].stream # 0
                               /\ AttrValues(trace[l], "Error") = {}

\* A failed open followed by a successful one.
C11_Witness ==
    \E i, j \in DOMAIN trace :
        /\ i < j
        /\ trace[i].kind = "return" /\ trace[i].op = "DebugStreamLogger"
        /\ trace[i].err = "dial failed" /\ trace[i].stream = 0
        /\ trace[j].kind = "return" /\ trace[j].op = "DebugStreamLogger"
        /\ trace[j].err = NoErr /\ trace[j].stream = 1

\* C12: every call of a decorated stream operation flushes exactly one log
\* record, whether the real operation failed or not, after the real operation
\* has returned and as the last thing before the call returns.
C12_OneFlushLastBeforeReturn ==
    \A i \in DOMAIN trace :
        IsOpCall(trace[i]) =>
            /\ Cardinality(LogsOf(i)) = 1
            /\ \A l \in LogsOf(i) :
                   /\ l = ReturnOf(i) - 1
                   /\ trace[l].msg = "ClientStream event"
                   /\ RealCallsOf(i) # {}
                   /\ \A k \in RealCallsOf(i) : k < l

\* A failed operation and a successful one, each with its record.
C12_Witness ==
    \E i, j \in DOMAIN trace :
        /\ IsOpCall(trace[i]) /\ trace[ReturnOf(i)].err = "EOF"
        /\ IsOpCall(trace[j]) /\ trace[ReturnOf(j)].err = NoErr
        /\ trace[i].op = "RecvMsg" /\ trace[j].op = "Trailer"
        /\ LogsOf(i) # {} /\ LogsOf(j) # {}

\* C13: the streams opened through DebugStreamLogger have pairwise distinct
\* correlation identifiers, also when they were opened at the same clock
\* reading.
C13_DistinctDebugIDs ==
    \A s, t \in DOMAIN streams :
        s # t => streams[s].id # streams[t].id

\* C14 as stated: the "intercepting ClientStream" record is in the sink
\* before the streamer is invoked.
C14_RecordBeforeStreamer ==
    \A i \in DOMAIN trace :
        IsOpenCall(trace[i]) =>
            /\ LogsOf(i) # {}
            /\ \A l \in LogsOf(i), k \in RealCallsOf(i) : l < k

\* C14: the "intercepting ClientStream" record carries the correlation id
\* taken on entry and the method name, and it reaches the sink only after the
\* streamer has returned, as the last thing before DebugStreamLogger returns.
C14_RecordAfterStreamer ==
    \A i \in DOMAIN trace :
        IsOpenCall(trace[i]) =>
            /\ LogsOf(i) # {}
            /\ \A l \in LogsOf(i) :
                   /\ l = ReturnOf(i) - 1
                   /\ \A k \in RealCallsOf(i) : k < l
                   /\ AttrValues(trace[l], "Method") = {trace[i].arg}
                   /\ \E t \in 1..MaxClock :
                          AttrValues(trace[l], "DebugID") = {DebugID(t)}

\* An open whose streamer event precedes its record.
C14_Witness ==
    \E i \in DOMAIN trace :
        /\ IsOpenCall(trace[i])
        /\ trace[i + 1].kind = "real" /\ trace[i + 1].op = "streamer"
        /\ trace[i + 2].kind = "log"
        /\ trace[i + 2].msg = "intercepting ClientStream"
        /\ trace[i + 3].kind = "return"

\* The stream a call entry belongs to: the stream it is called on, or the
\* stream a DebugStreamLogger call returns (0 when the open failed).
StreamOfCall(i) ==
    IF IsOpenCall(trace[i]) THEN trace[ReturnOf(i)].stream ELSE trace[i].stream

\* The records of every call that belongs to a stream carry its id and method.
RecordsCarrySessionFields ==
    \A i \in DOMAIN trace :
        (trace[i].kind = "call" /\ StreamOfCall(i) # 0) =>
            \A l \in LogsOf(i) :
                /\ AttrValues(trace[l], "DebugID") = {streams[StreamOfCall(i)].id}
                /\ AttrValues(trace[l], "Method") = {streams[StreamOfCall(i)].method}

\* No step changes a session that exists.
SessionFieldsFixed ==
    \A s \in DOMAIN streams :
        s \in DOMAIN streams' /\ streams'[s] = streams[s]

\* C16: every record produced for a stream, the open record and the record of
\* every later operation, carries the id and the method fixed when
\* DebugStreamLogger created the session, and no operation changes the id,
\* method or real-stream reference of a session.
C16_SessionFieldsConsistent ==
    []RecordsCarrySessionFields /\ [][SessionFieldsFixed]_vars

\* The open record and the records of two different operations of one stream.
C16_Witness ==
    \E i, j, k \in DOMAIN trace :
        /\ IsOpenCall(trace[i]) /\ StreamOfCall(i) = 1
        /\ IsOpCall(trace[j]) /\ trace[j].stream = 1
        /\ IsOpCall(trace[k]) /\ trace[k].stream = 1
        /\ trace[j].op # trace[k].op
        /\ LogsOf(i) # {} /\ LogsOf(j) # {} /\ LogsOf(k) # {}

\* C17: the record of a stream operation carries an Error attribute exactly
\* when the real operation reported an error, and the attribute is the error
\* returned to the caller; records of successful operations, of Trailer and of
\* Context carry none.
C17_ErrorAttributeIffError ==
    \A i \in DOMAIN trace :
        IsOpCall(trace[i]) =>
            \A l \in LogsOf(i), k \in RealCallsOf(i) :
                /\ AttrValues(trace[l], "Error") =
                       (IF trace[k].err # NoErr THEN {trace[k].err} ELSE {})
                /\ trace[ReturnOf(i)].err = trace[k].err
                /\ trace[i].op \in {"Trailer", "Context"} =>
                       AttrValues(trace[l], "Error") = {}

\* A failed SendMsg with its Error attribute, and a Header record without one.
C17_Witness ==
    \E i, j \in DOMAIN trace :
        /\ IsOpCall(trace[i]) /\ trace[i].op = "SendMsg"
        /\ trace[ReturnOf(i)].err = "EOF"
        /\ \E l \in LogsOf(i) : AttrValues(trace[l], "Error") = {"EOF"}
        /\ IsOpCall(trace[j]) /\ trace[j].op = "Header"
        /\ trace[ReturnOf(j)].err = NoErr
        /\ \E l \in LogsOf(j) : AttrValues(trace[l], "Error") = {}

-----------------------------------------------------------------------------
\* Claims about the HTTP interceptor, continued

ConfigErrors ==
    {"must supply a valid loggerconfig", "LoggerConfig must contain a Logger"}

\* C15: NewLoggingHTTPClient and NewLoggingClient, given a nil configuration
\* or one without a Logger, return the configuration error and no transport,
\* however NewTransport would end.
C15_ConfigErrorWhateverTransport ==
    (/\ newRet.fn \in {"NewLoggingHTTPClient", "NewLoggingClient"}
     /\ (newRet.cfgNil \/ ~newRet.cfgLogger))
        => (newRet.err \in ConfigErrors /\ ~newRet.transport)

\* The steps of RoundTrip call d that the interceptor itself takes.
InterceptorStep(d) ==
    \/ RoundTripBegin(d)
    \/ RoundTripBeginV1(d)
    \/ RoundTripInvoke(d)
    \/ RoundTripFinish(d)
    \/ RoundTripFinishV1(d)

\* Call d has been issued and has a step of the interceptor ahead of it.
AwaitsInterceptor(d) ==
    \/ rt[d].pc \in {"invoke", "returned"}
    \/ rt[d].pc = "idle" /\ (d > 1 => rt[d - 1].pc # "idle")

\* C18: while one RoundTrip call is inside the wrapped transport, every other
\* call can take its next step: enter and write its REQUEST block, hand its
\* request to the wrapped transport, write its RESPONSE block and return.
C18_NoLockAcrossInner ==
    \A c, d \in Calls :
        (c # d /\ rt[c].pc = "inner" /\ AwaitsInterceptor(d))
            => ENABLED InterceptorStep(d)

\* Call 2 has written both blocks and returned while call 1 is still inside
\* the wrapped transport.
C18_Witness ==
    /\ rt[1].pc = "inner"
    /\ rt[2].pc = "done"
    /\ ReqBlocks(2) # {} /\ RespBlocks(2) # {}
    /\ rt[2].ret.err = NoErr

\* C19: a REQUEST block holds the request body only if CaptureFullRequest is
\* set, and a RESPONSE block holds the response body only if
\* CaptureFullResponse is set.
C19_BodyOnlyIfCaptureFlag ==
    \A n \in DOMAIN sink :
        /\ (sink[n].kind = "REQUEST" /\ sink[n].dump.body # "")
               => tr.cfg.CaptureFullRequest
        /\ (sink[n].kind = "RESPONSE" /\ sink[n].dump.body # "")
               => tr.cfg.CaptureFullResponse

\* What RoundTrip returns, from the request's dump outcome, the wrapped
\* transport's outcome and the response's dump outcome alone.
ReturnFromOutcomes(reqDumpErr, out, respDumpErr) ==
    IF reqDumpErr # NoErr THEN [resp |-> NoMessage, err |-> reqDumpErr]
    ELSE IF out.err # NoErr THEN out
    ELSE IF respDumpErr # NoErr THEN [resp |-> NoMessage, err |-> respDumpErr]
    ELSE [resp |-> out.resp, err |-> NoErr]

\* C20: the filters decide only what is written. Under every configuration,
\* the number of invocations of the wrapped transport (one when the request
\* dump succeeded, none otherwise), the request it is given (the caller's)
\* and what RoundTrip returns are the same functions of the request and of
\* the dump and transport outcomes, in which neither filter appears; so two
\* calls that differ in the filters only agree on all three.
C20_FiltersDecideOnlyWrites ==
    \A c \in Calls :
        /\ rt[c].innerN =
               (IF \/ rt[c].pc \in {"inner", "returned"}
                   \/ rt[c].pc = "done" /\ rt[c].reqDumpErr = NoErr
                THEN 1 ELSE 0)
        /\ rt[c].innerN > 0 => rt[c].innerArg = rt[c].r
        /\ rt[c].pc = "done" =>
               rt[c].ret = ReturnFromOutcomes(rt[c].reqDumpErr, rt[c].innerOut,
                                              rt[c].respDumpErr)

\* Both filters reject everything: nothing is written for the call, and the
\* wrapped transport still got the request, body included, and the caller the
\* response.
C20_Witness ==
    \E c \in Calls :
        /\ tr.cfg.LogRequest = "never" /\ tr.cfg.LogResponse = "never"
        /\ rt[c].pc = "done"
        /\ CallBlocks(c) = {}
        /\ rt[c].innerN = 1
        /\ rt[c].innerArg = rt[c].r /\ rt[c].r.body # ""
        /\ rt[c].ret = [resp |-> rt[c].innerOut.resp, err |-> NoErr]
        /\ rt[c].ret.resp \in Responses

\* A record of the sink is a REQUEST or RESPONSE block of a RoundTrip call
\* that has been entered.
IsCallBlock(b) ==
    /\ b.kind \in {"REQUEST", "RESPONSE"}
    /\ b.call \in Calls
    /\ rt[b.call].pc # "idle"

====
